---- MODULE Spec2Model ----
(***************************************************************************)
(* The two loaders of the hospital data pipeline, load-hhs (weekly         *)
(* capacity extract) and load-quality (quality ratings), run one after the *)
(* other against one PostgreSQL database.  Every scalar of a CSV cell or a *)
(* table column is a string; a date string is the triple of its fields and *)
(* a geocoded point the sequence of its blank-separated tokens.            *)
(***************************************************************************)
EXTENDS Integers, Sequences, FiniteSets, TLC

VARIABLES
    db,            \* committed tables: location, hospital, weekly_report, hospital_quality
    tx,            \* the tables as the open connection sees them (db + its own writes)
    pc,            \* position of the running script
    kind,          \* which script runs: "hhs" or "quality"
    argv,          \* the command line and the file it names
    data_hhs,      \* load-hhs: the data frame
    location_ids,  \* load-hhs: ids fetched by the location re-query
    hospital_ids,  \* load-hhs: keys fetched by the hospital re-query
    row_count,     \* load-quality: rows processed so far
    row,           \* load-quality: the row of the last call of process_and_insert_row
    rating_date,   \* load-quality: the parsed rating date
    error,         \* the exception that ended the run, or NoError
    exitCode,      \* exit status of the process, Running while it runs
    conn,          \* the connection: "none", "open" or "closed"
    db0,           \* history: db when the run started
    rerun,         \* history: this run repeats the command of a successful run just before it
    used,          \* CSV rows read by all runs so far
    sessions,      \* the runs of two loaders started side by side, <<>> when there are none
    output         \* what the run has printed so far, tracebacks included

vars == <<db, tx, pc, kind, argv, data_hhs, location_ids, hospital_ids,
          row_count, row, rating_date, error, exitCode, conn, db0, rerun, used,
          sessions, output>>

\* Total number of CSV rows read over a behaviour.
MaxTotalRows == 4

None == "None"          \* Python None, SQL NULL
NaN == "nan"            \* the data frame's missing-value marker
Sentinel == "-999999"
NoError == "NoError"
Running == "running"

----------------------------------------------------------------------------
(* Inputs *)

MetricCols == {"all_adult_hospital_beds_7_day_avg",
               "all_pediatric_inpatient_beds_7_day_avg",
               "all_adult_hospital_inpatient_bed_occupied_7_day_avg",
               "all_pediatric_inpatient_bed_occupied_7_day_avg",
               "total_icu_beds_7_day_avg",
               "icu_beds_used_7_day_avg",
               "inpatient_beds_used_covid_7_day_avg",
               "staffed_icu_adult_patients_confirmed_covid_7_day_avg"}

\* Metric cells of a weekly row: every column its own value.
PlainMetrics ==
    [c \in MetricCols |->
        CASE c = "all_adult_hospital_beds_7_day_avg" -> "50"
          [] c = "all_pediatric_inpatient_beds_7_day_avg" -> "10"
          [] c = "all_adult_hospital_inpatient_bed_occupied_7_day_avg" -> "40"
          [] c = "all_pediatric_inpatient_bed_occupied_7_day_avg" -> "5"
          [] c = "total_icu_beds_7_day_avg" -> "20"
          [] c = "icu_beds_used_7_day_avg" -> "15"
          [] c = "inpatient_beds_used_covid_7_day_avg" -> "8"
          [] OTHER -> "3"]

\* Metric cells with the sentinel in two columns and an empty cell in one.
SentinelMetrics ==
    [PlainMetrics EXCEPT !["total_icu_beds_7_day_avg"] = Sentinel,
                         !["inpatient_beds_used_covid_7_day_avg"] = Sentinel,
                         !["icu_beds_used_7_day_avg"] = NaN]

Places == [Springfield |-> [city |-> "Springfield", state |-> "IL", zip |-> "62701"],
           Peoria |-> [city |-> "Peoria", state |-> "IL", zip |-> "61602"]]

\* A geocoded point "POINT (<lon> <lat>)" as its tokens; <<>> is an empty cell.
Point == <<"-89.6", "39.8">>
NoPoint == <<>>

Week1 == <<2022, 3, 1>>
Week2 == <<2022, 3, 8>>
BadDate == <<2022, 13, 40>>

WRow(pk, name, place, point, fips, week, m) ==
    [hospital_pk |-> pk, hospital_name |-> name, city |-> place.city,
     state |-> place.state, zip |-> place.zip, fips_code |-> fips,
     geocoded_hospital_address |-> point, collection_week |-> week, m |-> m]

\* The rows a weekly extract is made of.
WeeklyRows ==
    { WRow("1001", "General", Places.Springfield, Point, "17167", Week1, PlainMetrics),
      WRow("1002", "Memorial", Places.Springfield, Point, "17167", Week1, SentinelMetrics),
      WRow("1002", "Memorial", Places.Peoria, NoPoint, NaN, Week2, PlainMetrics),
      WRow("1001", "General North", Places.Peoria, Point, "17143", Week2, SentinelMetrics),
      WRow("1001", "General", Places.Springfield, Point, "17167", BadDate, PlainMetrics) }

SeqsUpTo(S, n) == UNION {[1..k -> S] : k \in 1..n}

----------------------------------------------------------------------------
(* The database *)

EmptyDb == [location |-> {}, hospital |-> {}, weekly_report |-> {},
            hospital_quality |-> {}]

\* Two rows collide on location's unique index over (city, state, zip_code,
\* latitude, longitude); a NULL in a key column collides with nothing.
LocationConflict(l, t) ==
    /\ l.city = t.city /\ l.state = t.state /\ l.zip_code = t.zip_code
    /\ l.latitude = t.latitude /\ l.longitude = t.longitude
    /\ None \notin {t.city, t.state, t.zip_code, t.latitude, t.longitude}

\* A location_id of None (ids are generated from 1 on).
NoLocation == 0

\* location.id is generated by the database.
NextLocationId(location) == Cardinality(location) + 1

\* INSERT INTO location ... ON CONFLICT ... DO NOTHING
InsertLocation(location, t) ==
    IF \E l \in location : LocationConflict(l, t)
    THEN location
    ELSE location \cup {[id |-> NextLocationId(location), city |-> t.city,
                         state |-> t.state, zip_code |-> t.zip_code,
                         latitude |-> t.latitude, longitude |-> t.longitude,
                         fips_code |-> t.fips_code]}

\* Mutant: ON CONFLICT (hospital_pk) DO UPDATE, the later extract wins.
InsertHospitalUpdate(hospital, h) ==
    {g \in hospital : g.hospital_pk # h.hospital_pk} \cup {h}

\* INSERT INTO hospital ... ON CONFLICT (hospital_pk) DO NOTHING
InsertHospital(hospital, h) ==
    IF \E g \in hospital : g.hospital_pk = h.hospital_pk
    THEN hospital
    ELSE hospital \cup {h}

\* SQL "=" between a column and a parameter: never true of a NULL, and NaN is
\* a float only NaN equals (no column stores NaN: the inserts send None).
SqlEq(column, param) == column # None /\ param # None /\ param # NaN /\ column = param

Pks(hospital) == {h.hospital_pk : h \in hospital}

\* All enumerations of a result set: a SELECT without ORDER BY fixes no order.
Orders(S) ==
    {s \in [1..Cardinality(S) -> S] : \A i, j \in 1..Cardinality(S) : i # j => s[i] # s[j]}

Min(a, b) == IF a < b THEN a ELSE b

----------------------------------------------------------------------------
(* load-hhs *)

IsLeap(y) == (y % 4 = 0 /\ y % 100 # 0) \/ y % 400 = 0

DaysInMonth(y, m) ==
    IF m = 2 THEN (IF IsLeap(y) THEN 29 ELSE 28)
    ELSE IF m \in {4, 6, 9, 11} THEN 30 ELSE 31

\* A date string matches %Y-%m-%d.
ValidDate(s) ==
    /\ Len(s) = 3
    /\ s[1] \in 1..9999 /\ s[2] \in 1..12
    /\ s[3] \in 1..DaysInMonth(s[1], s[2])

\* strptime / to_datetime: the date object of a valid date string.
ParseDate(s) == [year |-> s[1], month |-> s[2], day |-> s[3]]

\* data_hhs.replace(-999999, np.nan) on one cell
ReplaceSentinel(v) == IF v = Sentinel THEN NaN ELSE v

\* x if not np.isnan(x) else None
NanToNone(v) == IF v = NaN THEN None ELSE v

\* df.drop_duplicates(subset='hospital_pk'): the first row of each key stays.
RECURSIVE DropDuplicates(_)
DropDuplicates(rows) ==
    IF rows = <<>> THEN <<>>
    ELSE LET init == DropDuplicates(SubSeq(rows, 1, Len(rows) - 1))
             last == rows[Len(rows)]
         IN IF \E i \in 1..Len(init) : init[i].hospital_pk = last.hospital_pk
            THEN init
            ELSE Append(init, last)

\* Lines 32-38 on one row: sentinel replacement, then the point string split
\* into the columns latitude (first token) and longitude (second token).
SplitRow(r) ==
    [hospital_pk |-> r.hospital_pk, hospital_name |-> r.hospital_name,
     city |-> r.city, state |-> r.state, zip |-> r.zip,
     fips_code |-> ReplaceSentinel(r.fips_code),
     latitude |-> IF r.geocoded_hospital_address = NoPoint THEN NaN
                  ELSE r.geocoded_hospital_address[1],
     longitude |-> IF r.geocoded_hospital_address = NoPoint THEN NaN
                   ELSE r.geocoded_hospital_address[2],
     collection_week |-> r.collection_week,
     m |-> [c \in MetricCols |-> ReplaceSentinel(r.m[c])]]

\* The tuple of one data-frame row as sent to the location insert.
LocationData(r) ==
    [city |-> r.city, state |-> r.state, zip_code |-> r.zip,
     latitude |-> NanToNone(r.latitude), longitude |-> NanToNone(r.longitude),
     fips_code |-> NanToNone(r.fips_code)]

\* cur.executemany of the location insert over the rows of the frame
RECURSIVE InsertLocations(_, _)
InsertLocations(location, rows) ==
    IF rows = <<>> THEN location
    ELSE InsertLocations(InsertLocation(location, LocationData(Head(rows))), Tail(rows))

\* WHERE (city, state, zip_code, latitude, longitude, fips_code) IN (unnest(...)):
\* the location rows equal, column by column, to the tuple of some frame row.
MatchingLocations(location, rows) ==
    {l \in location : \E i \in 1..Len(rows) :
        /\ SqlEq(l.city, rows[i].city) /\ SqlEq(l.state, rows[i].state)
        /\ SqlEq(l.zip_code, rows[i].zip)
        /\ SqlEq(l.latitude, rows[i].latitude)
        /\ SqlEq(l.longitude, rows[i].longitude)
        /\ SqlEq(l.fips_code, rows[i].fips_code)}

\* hospital_data: zip(hospital_pk, hospital_name, location_ids)
HospitalData(rows, ids) ==
    [i \in 1..Min(Len(rows), Len(ids)) |->
        [hospital_pk |-> rows[i].hospital_pk,
         hospital_name |-> rows[i].hospital_name, location_id |-> ids[i]]]

RECURSIVE InsertHospitals(_, _)
InsertHospitals(hospital, hs) ==
    IF hs = <<>> THEN hospital
    ELSE InsertHospitals(InsertHospital(hospital, Head(hs)), Tail(hs))

\* WHERE (hospital_pk, hospital_name) IN (unnest(pks, names))
MatchingHospitals(hospital, rows) ==
    {h \in hospital : \E i \in 1..Len(rows) :
        /\ SqlEq(h.hospital_pk, rows[i].hospital_pk)
        /\ SqlEq(h.hospital_name, rows[i].hospital_name)}

\* The i-th tuple of weekly_data laid on the column list of the INSERT: the
\* tuple carries total_icu_beds, adult occupied, pediatric occupied in places
\* 4-6, the column list names adult occupied, pediatric occupied,
\* total_icu_beds there.
WeeklyFact(r, hospital_id) ==
    [collection_week |-> r.collection_week,
     all_adult_hospital_beds_7_day_avg |->
        NanToNone(r.m["all_adult_hospital_beds_7_day_avg"]),
     all_pediatric_inpatient_beds_7_day_avg |->
        NanToNone(r.m["all_pediatric_inpatient_beds_7_day_avg"]),
     all_adult_hospital_inpatient_bed_occupied_7_day_avg |->
        NanToNone(r.m["total_icu_beds_7_day_avg"]),
     all_pediatric_inpatient_bed_occupied_7_day_avg |->
        NanToNone(r.m["all_adult_hospital_inpatient_bed_occupied_7_day_avg"]),
     total_icu_beds_7_day_avg |->
        NanToNone(r.m["all_pediatric_inpatient_bed_occupied_7_day_avg"]),
     icu_beds_used_7_day_avg |-> NanToNone(r.m["icu_beds_used_7_day_avg"]),
     inpatient_beds_used_covid_7_day_avg |->
        NanToNone(r.m["inpatient_beds_used_covid_7_day_avg"]),
     staffed_icu_adult_patients_confirmed_covid_7_day_avg |->
        NanToNone(r.m["staffed_icu_adult_patients_confirmed_covid_7_day_avg"]),
     hospital_weekly_id |-> hospital_id]

\* weekly_data: zip(the frame's columns, hospital_ids)
WeeklyData(rows, ids) ==
    [i \in 1..Min(Len(rows), Len(ids)) |-> WeeklyFact(rows[i], ids[i])]

\* weekly_report rows get a generated id: equal facts are separate rows.
RECURSIVE InsertFacts(_, _)
InsertFacts(table, facts) ==
    IF facts = <<>> THEN table
    ELSE InsertFacts(table \cup {[id |-> Cardinality(table) + 1, f |-> Head(facts)]},
                     Tail(facts))

----------------------------------------------------------------------------
(* load-quality *)

(* The cells parse_quality_rating and parse_boolean read are sequences of    *)
(* characters; <<None>> is the None csv.DictReader gives for a cell the row  *)
(* does not have.                                                            *)
Absent == <<None>>
Whitespace == {" "}
AsciiDigits == <<"0", "1", "2", "3", "4", "5", "6", "7", "8", "9">>
SuperscriptTwo == "sup2"    \* U+00B2: str.isdigit() is True, int() raises ValueError
UpperCase == <<"A", "E", "N", "O", "S", "Y">>
LowerCase == <<"a", "e", "n", "o", "s", "y">>
NotAvailable == <<"N", "o", "t", " ", "A", "v", "a", "i", "l", "a", "b", "l", "e">>

\* not value
Falsy(value) == value = <<>> \/ value = Absent

RECURSIVE LStrip(_)
LStrip(v) == IF v # <<>> /\ Head(v) \in Whitespace THEN LStrip(Tail(v)) ELSE v

RECURSIVE RStrip(_)
RStrip(v) ==
    IF v # <<>> /\ v[Len(v)] \in Whitespace THEN RStrip(SubSeq(v, 1, Len(v) - 1)) ELSE v

\* str.strip()
Strip(v) == RStrip(LStrip(v))

\* str.lower()
Lower(v) ==
    [i \in 1..Len(v) |->
        IF \E k \in 1..Len(UpperCase) : UpperCase[k] = v[i]
        THEN LowerCase[CHOOSE k \in 1..Len(UpperCase) : UpperCase[k] = v[i]]
        ELSE v[i]]

IsAsciiDigit(c) == \E k \in 1..10 : AsciiDigits[k] = c

\* str.isdigit()
IsDigit(v) == v # <<>> /\ \A i \in 1..Len(v) : IsAsciiDigit(v[i]) \/ v[i] = SuperscriptTwo

\* int(value) of a string of ASCII digits
RECURSIVE IntOf(_)
IntOf(v) ==
    IF v = <<>> THEN 0
    ELSE 10 * IntOf(SubSeq(v, 1, Len(v) - 1))
         + (CHOOSE k \in 0..9 : AsciiDigits[k + 1] = v[Len(v)])

\* int(value) raises ValueError: reached only when value.isdigit()
IntRaises(v) == \E i \in 1..Len(v) : ~IsAsciiDigit(v[i])

\* parse_quality_rating raises
RatingRaises(value) ==
    /\ ~Falsy(value) /\ Strip(value) # NotAvailable
    /\ IsDigit(value) /\ IntRaises(value)

\* parse_quality_rating: the rating, an integer of 1..5 written in decimal, or None
parse_quality_rating(value) ==
    IF Falsy(value) \/ Strip(value) = NotAvailable THEN None
    ELSE LET rating == IF IsDigit(value) THEN IntOf(value) ELSE -1
         IN IF ~IsDigit(value) THEN None
            ELSE IF rating < 1 \/ rating > 5 THEN None
            ELSE AsciiDigits[rating + 1]

\* parse_boolean
parse_boolean(value) ==
    IF Falsy(value) THEN FALSE
    ELSE Lower(Strip(value)) = <<"y", "e", "s">>

QRow(id, name, place, emergency, rating, fault) ==
    [facility_id |-> id, hospital_name |-> name, city |-> place.city,
     state |-> place.state, zip_code |-> place.zip, ownership |-> "Government",
     emergency_services |-> emergency, hospital_type |-> "Acute Care Hospitals",
     rating |-> rating, fault |-> fault]

\* The rows a quality extract is made of.  fault names the statement of
\* process_and_insert_row the database refuses for this row with an error.
QualityRows ==
    { QRow("1001", "General", Places.Springfield, <<"Y", "e", "s">>, <<"3">>, "none"),
      QRow("1002", "Memorial", Places.Springfield, <<"N", "o">>, NotAvailable, "none"),
      QRow("1001", "General North", Places.Peoria, <<"Y", "E", "S">>, <<"6">>, "none"),
      QRow("1002", "Memorial", Places.Peoria, <<>>, <<SuperscriptTwo>>, "none"),
      QRow("1002", "Memorial", Places.Peoria, Absent, <<"5">>, "hospital_quality") }

\* Mutant: the backfill without the hospital check, relying on the two
\* ON CONFLICT clauses alone.
BackfillAlways(t, r) ==
    LET loc == [city |-> r.city, state |-> r.state, zip_code |-> r.zip_code,
                latitude |-> None, longitude |-> None, fips_code |-> None]
        location == InsertLocation(t.location, loc)
        location_id == IF location # t.location
                       THEN NextLocationId(t.location) ELSE NoLocation
    IN [t EXCEPT !.location = location,
                 !.hospital = InsertHospital(t.hospital,
                                 [hospital_pk |-> r.facility_id,
                                  hospital_name |-> r.hospital_name,
                                  location_id |-> location_id])]

\* Mutant: the backfill inserts the location and forgets the hospital.
BackfillLocationOnly(t, r) ==
    IF r.facility_id \in Pks(t.hospital) THEN t
    ELSE [t EXCEPT !.location =
             InsertLocation(t.location,
                [city |-> r.city, state |-> r.state, zip_code |-> r.zip_code,
                 latitude |-> None, longitude |-> None, fips_code |-> None])]

\* Mutant: the location insert of the backfill is skipped when a location of
\* the same city, state and zip code exists, and returns no id.
BackfillSkippingKnownPlace(t, r) ==
    IF r.facility_id \in Pks(t.hospital) THEN t
    ELSE LET loc == [city |-> r.city, state |-> r.state, zip_code |-> r.zip_code,
                     latitude |-> None, longitude |-> None, fips_code |-> None]
             known == \E l \in t.location :
                          /\ l.city = r.city /\ l.state = r.state
                          /\ l.zip_code = r.zip_code
             location == IF known THEN t.location ELSE InsertLocation(t.location, loc)
             location_id == IF location # t.location
                            THEN NextLocationId(t.location) ELSE NoLocation
         IN [t EXCEPT !.location = location,
                      !.hospital = InsertHospital(t.hospital,
                                      [hospital_pk |-> r.facility_id,
                                       hospital_name |-> r.hospital_name,
                                       location_id |-> location_id])]

\* lines 104-121 of process_and_insert_row: the hospital check and the
\* backfill of location and hospital.
Backfill(t, r) ==
    IF r.facility_id \in Pks(t.hospital) THEN t
    ELSE LET loc == [city |-> r.city, state |-> r.state, zip_code |-> r.zip_code,
                     latitude |-> None, longitude |-> None, fips_code |-> None]
             location == InsertLocation(t.location, loc)
             location_id == IF location # t.location
                            THEN NextLocationId(t.location) ELSE NoLocation
         IN [t EXCEPT !.location = location,
                      !.hospital = InsertHospital(t.hospital,
                                      [hospital_pk |-> r.facility_id,
                                       hospital_name |-> r.hospital_name,
                                       location_id |-> location_id])]

\* lines 124-130: the row of hospital_quality
QualityFact(r, date) ==
    [facility_id |-> r.facility_id,
     quality_rating |-> parse_quality_rating(r.rating),
     rating_date |-> date, ownership |-> r.ownership,
     hospital_type |-> r.hospital_type,
     provides_emergency_services |-> parse_boolean(r.emergency_services)]

\* Mutant: the fact insert replaces the ratings the facility already has.
ProcessRowOverwriting(t, r, date) ==
    IF RatingRaises(r.rating) THEN [tx |-> t, exc |-> "ValueError"]
    ELSE LET filled == Backfill(t, r)
             others == {q \in filled.hospital_quality : q.f.facility_id # r.facility_id}
         IN IF r.facility_id \notin Pks(filled.hospital)
            THEN [tx |-> filled, exc |-> "ForeignKeyViolation"]
            ELSE IF r.fault = "hospital_quality"
            THEN [tx |-> filled, exc |-> "DatabaseError"]
            ELSE [tx |-> [filled EXCEPT !.hospital_quality =
                             others \cup {[id |-> Cardinality(filled.hospital_quality) + 1,
                                           f |-> QualityFact(r, date)]}],
                  exc |-> NoError]

\* Mutant: the fact is inserted only for a facility whose hospital row was
\* there before the row was read.
ProcessRowKnownHospitalOnly(t, r, date) ==
    IF RatingRaises(r.rating) THEN [tx |-> t, exc |-> "ValueError"]
    ELSE LET filled == Backfill(t, r)
         IN IF r.facility_id \notin Pks(filled.hospital)
            THEN [tx |-> filled, exc |-> "ForeignKeyViolation"]
            ELSE IF r.fault = "hospital_quality"
            THEN [tx |-> filled, exc |-> "DatabaseError"]
            ELSE IF r.facility_id \notin Pks(t.hospital)
            THEN [tx |-> filled, exc |-> NoError]
            ELSE [tx |-> [filled EXCEPT !.hospital_quality =
                             InsertFacts(filled.hospital_quality,
                                         <<QualityFact(r, date)>>)],
                  exc |-> NoError]

\* process_and_insert_row: the tables after the call and the exception it
\* raised.  The fact insert raises ForeignKeyViolation without a hospital row.
process_and_insert_row(t, r, date) ==
    IF RatingRaises(r.rating) THEN [tx |-> t, exc |-> "ValueError"]
    ELSE LET filled == Backfill(t, r)
         IN IF r.facility_id \notin Pks(filled.hospital)
            THEN [tx |-> filled, exc |-> "ForeignKeyViolation"]
            ELSE IF r.fault = "hospital_quality"
            THEN [tx |-> filled, exc |-> "DatabaseError"]
            ELSE [tx |-> [filled EXCEPT !.hospital_quality =
                             InsertFacts(filled.hospital_quality,
                                         <<QualityFact(r, date)>>)],
                  exc |-> NoError]

----------------------------------------------------------------------------
(* Processes *)

\* fault names the insert of load-hhs the database refuses with
\* ForeignKeyViolation in this run.
\* What the scripts print, and the traceback the interpreter prints for an
\* exception no handler catches.
ProgressEvery == 100
Usage == <<"Usage: python load-quality.py <rating_date><quality-data-file.csv>">>
InvalidDate == <<"Invalid date format. Use YYYY-MM-DD.">>
Progress(n) == <<"Processed rows...", n>>
RowErrorMessage(n) == <<"Error processing row", n>>
RowData == <<"Row data:">>
Success(n) == <<"Data loaded successfully. Processed rows.", n>>
FileNotFound == <<"File not found">>
ErrorOccurred(e) == <<"An error occurred", e>>
Closed == <<"Database connection closed.">>
ForeignKeyMessage == <<"Foreign key has no corresponding primary key">>
Traceback(exc) == <<"Traceback", exc>>

NoArgs == [argc |-> 0, date |-> <<>>, exists |-> FALSE, rows |-> <<>>, fault |-> "none"]

Init ==
    /\ db = EmptyDb
    /\ tx = EmptyDb
    /\ pc = "idle"
    /\ kind = "none"
    /\ argv = NoArgs
    /\ data_hhs = <<>>
    /\ location_ids = <<>>
    /\ hospital_ids = <<>>
    /\ row_count = 0
    /\ row = <<>>
    /\ error = NoError
    /\ exitCode = 0
    /\ conn = "none"
    /\ rating_date = None
    /\ db0 = EmptyDb
    /\ rerun = FALSE
    /\ sessions = <<>>
    /\ output = <<>>
    /\ used = 0

\* A script is started from the shell once the one before it has ended.
Launch(k, args) ==
    /\ pc \in {"idle", "done"}
    /\ rerun' = (kind = k /\ argv = args /\ exitCode = 0 /\ error = NoError)
    /\ kind' = k
    /\ argv' = args
    /\ db0' = db
    /\ tx' = db
    /\ data_hhs' = <<>>
    /\ location_ids' = <<>>
    /\ hospital_ids' = <<>>
    /\ row_count' = 0
    /\ row' = <<>>
    /\ error' = NoError
    /\ exitCode' = Running
    /\ rating_date' = None
    /\ output' = <<>>
    /\ UNCHANGED <<db, sessions>>

\* An exception no handler catches: the interpreter prints the traceback and
\* exits with status 1; the server discards the open transaction.
Uncaught(exc) ==
    /\ pc' = "done"
    /\ error' = exc
    /\ exitCode' = 1
    /\ tx' = db
    /\ output' = Append(output, Traceback(exc))

\* load-hhs lines 9-14: the script starts and connects.
HhsStart ==
    \E argc \in 1..2, exists \in BOOLEAN, rows \in SeqsUpTo(WeeklyRows, MaxTotalRows - used),
       fault \in {"none", "hospital", "weekly_report"} :
        /\ exists \/ Len(rows) = 1
        /\ argc = 2 \/ (exists /\ Len(rows) = 1)
        /\ fault # "none" => (argc = 2 /\ exists)
        /\ Launch("hhs", [argc |-> argc, date |-> <<>>, exists |-> exists, rows |-> rows,
                          fault |-> fault])
        /\ conn' = "open"
        /\ pc' = "read_csv"
        /\ used' = used + Len(rows)

\* lines 16-25: pd.read_csv(sys.argv[1]) and the column selection
HhsReadCsv ==
    /\ kind = "hhs" /\ pc = "read_csv"
    /\ IF argv.argc < 2 THEN Uncaught("IndexError") /\ UNCHANGED data_hhs
       ELSE IF ~argv.exists THEN Uncaught("FileNotFoundError") /\ UNCHANGED data_hhs
       ELSE /\ data_hhs' = argv.rows
            /\ pc' = "normalize"
            /\ UNCHANGED <<error, exitCode, tx, output>>
    /\ UNCHANGED <<db, kind, argv, location_ids, hospital_ids, row_count, row,
                   rating_date, conn, db0, rerun, sessions, used>>

\* lines 27-44: sentinel replacement, point split, drop_duplicates, to_datetime.
\* A point column with no string in it is a float column, on which .str raises
\* AttributeError; a collection_week that does not parse raises ValueError.
Normalize(rows) ==
    LET kept == DropDuplicates([i \in 1..Len(rows) |-> SplitRow(rows[i])])
    IN [i \in 1..Len(kept) |->
           [kept[i] EXCEPT !.collection_week = ParseDate(kept[i].collection_week)]]

\* The rows whose collection_week reaches pd.to_datetime.
DatesParsed(rows) ==
    LET kept == DropDuplicates([i \in 1..Len(rows) |-> SplitRow(rows[i])])
    IN {kept[i].collection_week : i \in 1..Len(kept)}

HhsNormalize ==
    /\ kind = "hhs" /\ pc = "normalize"
    /\ IF \A i \in 1..Len(data_hhs) : data_hhs[i].geocoded_hospital_address = NoPoint
       THEN Uncaught("AttributeError") /\ UNCHANGED data_hhs
       ELSE IF \E d \in DatesParsed(data_hhs) : ~ValidDate(d)
       THEN Uncaught("ValueError") /\ UNCHANGED data_hhs
       ELSE /\ data_hhs' = Normalize(data_hhs)
            /\ pc' = "insert_location"
            /\ UNCHANGED <<error, exitCode, tx, output>>
    /\ UNCHANGED <<db, kind, argv, location_ids, hospital_ids, row_count, row,
                   rating_date, conn, db0, rerun, sessions, used>>

\* lines 46-59
HhsInsertLocations ==
    /\ kind = "hhs" /\ pc = "insert_location"
    /\ tx' = [tx EXCEPT !.location = InsertLocations(tx.location, data_hhs)]
    /\ pc' = "select_location"
    /\ UNCHANGED <<db, kind, argv, data_hhs, location_ids, hospital_ids, row_count,
                   row, rating_date, error, exitCode, conn, db0, rerun, output, sessions, used>>

\* lines 61-73: location_ids = [row[0] for row in cur.fetchall()]
HhsSelectLocationIds ==
    /\ kind = "hhs" /\ pc = "select_location"
    /\ \E order \in Orders(MatchingLocations(tx.location, data_hhs)) :
          location_ids' = [i \in 1..Len(order) |-> order[i].id]
    /\ pc' = "insert_hospital"
    /\ UNCHANGED <<db, tx, kind, argv, data_hhs, hospital_ids, row_count,
                   row, rating_date, error, exitCode, conn, db0, rerun, output, sessions, used>>

\* lines 76-91: a location_id with no location row, or a location row another
\* session removed (fault), raises ForeignKeyViolation, which is caught:
\* message, conn.rollback(), and the script goes on.
HhsInsertHospitals ==
    /\ kind = "hhs" /\ pc = "insert_hospital"
    /\ LET hospital_data == HospitalData(data_hhs, location_ids)
       IN IF /\ argv.fault # "hospital"
             /\ \A i \in 1..Len(hospital_data) :
                   \/ hospital_data[i].location_id = NoLocation
                   \/ \E l \in tx.location : l.id = hospital_data[i].location_id
          THEN /\ tx' = [tx EXCEPT !.hospital = InsertHospitals(tx.hospital, hospital_data)]
               /\ UNCHANGED <<error, output>>
          ELSE /\ tx' = db
               /\ error' = "ForeignKeyViolation"
               /\ output' = Append(output, ForeignKeyMessage)
    /\ pc' = "select_hospital"
    /\ UNCHANGED <<db, kind, argv, data_hhs, location_ids, hospital_ids, row_count,
                   row, rating_date, exitCode, conn, db0, rerun, sessions, used>>

\* lines 94-101: hospital_ids = [row[0] for row in cur.fetchall()]
HhsSelectHospitalIds ==
    /\ kind = "hhs" /\ pc = "select_hospital"
    /\ \E order \in Orders(MatchingHospitals(tx.hospital, data_hhs)) :
          hospital_ids' = [i \in 1..Len(order) |-> order[i].hospital_pk]
    /\ pc' = "insert_weekly"
    /\ UNCHANGED <<db, tx, kind, argv, data_hhs, location_ids, row_count,
                   row, rating_date, error, exitCode, conn, db0, rerun, output, sessions, used>>

\* lines 103-139: a hospital_weekly_id with no hospital row raises
\* ForeignKeyViolation, which is caught: message, conn.rollback().
HhsInsertWeekly ==
    /\ kind = "hhs" /\ pc = "insert_weekly"
    /\ LET weekly_data == WeeklyData(data_hhs, hospital_ids)
       IN IF /\ argv.fault # "weekly_report"
             /\ \A i \in 1..Len(weekly_data) :
                   weekly_data[i].hospital_weekly_id \in Pks(tx.hospital)
          THEN /\ tx' = [tx EXCEPT !.weekly_report =
                                      InsertFacts(tx.weekly_report, weekly_data)]
               /\ UNCHANGED <<error, output>>
          ELSE /\ tx' = db
               /\ error' = "ForeignKeyViolation"
               /\ output' = Append(output, ForeignKeyMessage)
    /\ pc' = "commit"
    /\ UNCHANGED <<db, kind, argv, data_hhs, location_ids, hospital_ids, row_count,
                   row, rating_date, exitCode, conn, db0, rerun, sessions, used>>

\* lines 142-143: conn.commit(); conn.close(); the script ends
HhsCommit ==
    /\ kind = "hhs" /\ pc = "commit"
    /\ db' = tx
    /\ conn' = "closed"
    /\ exitCode' = 0
    /\ pc' = "done"
    /\ UNCHANGED <<tx, kind, argv, data_hhs, location_ids, hospital_ids, row_count,
                   row, rating_date, error, db0, rerun, output, sessions, used>>

\* load-quality is started from the shell.  The first extract of ratings is
\* dated Week1; once ratings are stored an extract repeats that date or
\* carries the later one.
QualityStart ==
    \E argc \in 2..3, date \in {Week1, Week2, BadDate}, exists \in BOOLEAN :
        /\ used < MaxTotalRows
        /\ Cardinality({b \in {argc = 3, ValidDate(date), exists} : b = FALSE}) <= 1
        /\ date = Week2 => (argc = 3 /\ exists /\ db.hospital_quality # {})
        /\ Launch("quality", [argc |-> argc, date |-> date, exists |-> exists,
                              rows |-> <<>>, fault |-> "none"])
        /\ conn' = "none"
        /\ pc' = "args"
        /\ UNCHANGED used

\* main, lines 32-50: argument count, rating date, connection
QualityArgs ==
    /\ kind = "quality" /\ pc = "args"
    /\ IF argv.argc # 3 \/ ~ValidDate(argv.date)
       THEN /\ pc' = "done"
            /\ error' = "SystemExit"
            /\ exitCode' = 1
            /\ output' = Append(output, IF argv.argc # 3 THEN Usage ELSE InvalidDate)
            /\ UNCHANGED <<rating_date, conn>>
       ELSE /\ rating_date' = ParseDate(argv.date)
            /\ conn' = "open"
            /\ pc' = "open_csv"
            /\ UNCHANGED <<error, exitCode, output>>
    /\ UNCHANGED <<db, tx, kind, argv, data_hhs, location_ids, hospital_ids,
                   row_count, row, db0, rerun, sessions, used>>

\* lines 53-56 and 72-74: open(csv_file); FileNotFoundError is reported and
\* turned into sys.exit(1)
QualityOpenCsv ==
    /\ kind = "quality" /\ pc = "open_csv"
    /\ IF argv.exists
       THEN pc' = "rows" /\ UNCHANGED <<error, output>>
       ELSE /\ pc' = "finally" /\ error' = "FileNotFoundError"
            /\ output' = Append(output, FileNotFound)
    /\ row_count' = 0
    /\ UNCHANGED <<db, tx, kind, argv, data_hhs, location_ids, hospital_ids,
                   row, rating_date, exitCode, conn, db0, rerun, sessions, used>>

\* Mutant: a separate commit right after a hospital/location pair was inserted.
QualityRowEarlyCommit ==
    /\ kind = "quality" /\ pc = "rows"
    /\ used < MaxTotalRows
    /\ \E r \in QualityRows :
          LET res == process_and_insert_row(tx, r, rating_date)
          IN /\ row' = r
             /\ tx' = res.tx
             /\ db' = IF res.tx.hospital # tx.hospital
                      THEN [db EXCEPT !.location = res.tx.location,
                                      !.hospital = res.tx.hospital]
                      ELSE db
             /\ IF res.exc = NoError
                THEN /\ row_count' = row_count + 1
                     /\ output' = IF (row_count + 1) % ProgressEvery = 0
                                  THEN Append(output, Progress(row_count + 1))
                                  ELSE output
                     /\ UNCHANGED <<pc, error>>
                ELSE /\ pc' = "except"
                     /\ error' = res.exc
                     /\ output' = output \o <<RowErrorMessage(row_count + 1), RowData>>
                     /\ UNCHANGED row_count
    /\ used' = used + 1
    /\ UNCHANGED <<kind, argv, data_hhs, location_ids, hospital_ids,
                   rating_date, exitCode, conn, db0, rerun, sessions>>

\* lines 57-67: one turn of the loop over the reader
QualityRow ==
    /\ kind = "quality" /\ pc = "rows"
    /\ used < MaxTotalRows
    /\ \E r \in QualityRows :
          LET res == process_and_insert_row(tx, r, rating_date)
          IN /\ row' = r
             /\ tx' = res.tx
             /\ IF res.exc = NoError
                THEN /\ row_count' = row_count + 1
                     /\ output' = IF (row_count + 1) % ProgressEvery = 0
                                  THEN Append(output, Progress(row_count + 1))
                                  ELSE output
                     /\ UNCHANGED <<pc, error>>
                ELSE /\ pc' = "except"
                     /\ error' = res.exc
                     /\ output' = output \o <<RowErrorMessage(row_count + 1), RowData>>
                     /\ UNCHANGED row_count
    /\ used' = used + 1
    /\ UNCHANGED <<db, kind, argv, data_hhs, location_ids, hospital_ids,
                   rating_date, exitCode, conn, db0, rerun, sessions>>

\* lines 68-70: the reader is exhausted: conn.commit() and the success message
QualityCommit ==
    /\ kind = "quality" /\ pc = "rows"
    /\ db' = tx
    /\ output' = Append(output, Success(row_count))
    /\ pc' = "finally"
    /\ UNCHANGED <<tx, kind, argv, data_hhs, location_ids, hospital_ids, row_count,
                   row, rating_date, error, exitCode, conn, db0, rerun, sessions, used>>

\* Mutant: the handler commits what the rows before the failing one wrote.
QualityExceptCommits ==
    /\ kind = "quality" /\ pc = "except"
    /\ db' = tx
    /\ output' = Append(output, ErrorOccurred(error))
    /\ pc' = "finally"
    /\ UNCHANGED <<tx, kind, argv, data_hhs, location_ids, hospital_ids, row_count,
                   row, rating_date, error, exitCode, conn, db0, rerun, sessions, used>>

\* lines 75-77: except Exception: conn.rollback() and the error message
QualityExcept ==
    /\ kind = "quality" /\ pc = "except"
    /\ tx' = db
    /\ output' = Append(output, ErrorOccurred(error))
    /\ pc' = "finally"
    /\ UNCHANGED <<db, kind, argv, data_hhs, location_ids, hospital_ids, row_count,
                   row, rating_date, error, exitCode, conn, db0, rerun, sessions, used>>

\* lines 78-81: finally: cur.close(), conn.close(); then main returns, or the
\* pending sys.exit(1) ends the process
QualityFinally ==
    /\ kind = "quality" /\ pc = "finally"
    /\ conn' = "closed"
    /\ output' = Append(output, Closed)
    /\ tx' = db
    /\ exitCode' = IF error = "FileNotFoundError" THEN 1 ELSE 0
    /\ pc' = "done"
    /\ UNCHANGED <<db, kind, argv, data_hhs, location_ids, hospital_ids, row_count,
                   row, rating_date, error, db0, rerun, sessions, used>>

Next ==
    \/ HhsStart
    \/ HhsReadCsv
    \/ HhsNormalize
    \/ HhsInsertLocations
    \/ HhsSelectLocationIds
    \/ HhsInsertHospitals
    \/ HhsSelectHospitalIds
    \/ HhsInsertWeekly
    \/ HhsCommit
    \/ QualityStart
    \/ QualityArgs
    \/ QualityOpenCsv
    \/ QualityRow
    \/ QualityCommit
    \/ QualityExcept
    \/ QualityFinally

Spec == Init /\ [][Next]_vars

----------------------------------------------------------------------------
(* parse_quality_rating on its own: a quality file of one row whose rating *)
(* cell is any short string, read by a run that has connected.             *)

\* Longest rating cell drawn from RatingChars.
MaxRatingLen == 2

RatingChars == {"0", "3", "5", "6", "a", " ", SuperscriptTwo}

\* The cells of the column "Hospital overall rating".
RatingInputs ==
    SeqsUpTo(RatingChars, MaxRatingLen)
        \cup {<<>>, Absent, NotAvailable, <<" ">> \o NotAvailable \o <<" ">>,
              <<"a", "b", "c">>}

RatingInit ==
    /\ db = EmptyDb
    /\ tx = EmptyDb
    /\ pc = "rows"
    /\ kind = "quality"
    /\ \E v \in RatingInputs :
          argv = [argc |-> 3, date |-> Week1, exists |-> TRUE,
                  rows |-> <<QRow("1001", "General", Places.Springfield,
                                  <<"Y", "e", "s">>, v, "none")>>,
                  fault |-> "none"]
    /\ data_hhs = <<>>
    /\ location_ids = <<>>
    /\ hospital_ids = <<>>
    /\ row_count = 0
    /\ row = <<>>
    /\ error = NoError
    /\ exitCode = Running
    /\ conn = "open"
    /\ rating_date = ParseDate(Week1)
    /\ db0 = EmptyDb
    /\ rerun = FALSE
    /\ sessions = <<>>
    /\ output = <<>>
    /\ used = 0

\* lines 57-67 on the next row of the file
RatingRow ==
    /\ kind = "quality" /\ pc = "rows"
    /\ row_count < Len(argv.rows)
    /\ LET r == argv.rows[row_count + 1]
           res == process_and_insert_row(tx, r, rating_date)
       IN /\ row' = r
          /\ tx' = res.tx
          /\ IF res.exc = NoError
             THEN /\ row_count' = row_count + 1
                  /\ output' = IF (row_count + 1) % ProgressEvery = 0
                               THEN Append(output, Progress(row_count + 1))
                               ELSE output
                  /\ UNCHANGED <<pc, error>>
             ELSE /\ pc' = "except"
                  /\ error' = res.exc
                  /\ output' = output \o <<RowErrorMessage(row_count + 1), RowData>>
                  /\ UNCHANGED row_count
    /\ UNCHANGED <<db, kind, argv, data_hhs, location_ids, hospital_ids,
                   rating_date, exitCode, conn, db0, rerun, sessions, used>>

\* lines 68-70 once the reader is exhausted
RatingCommit ==
    /\ row_count = Len(argv.rows)
    /\ QualityCommit

RatingNext ==
    \/ RatingRow
    \/ RatingCommit
    \/ QualityExcept
    \/ QualityFinally

RatingSpec == RatingInit /\ [][RatingNext]_vars

(***************************************************************************)
(* parse_boolean on its own: a quality file of one row whose "Emergency    *)
(* Services" cell is any short string, read by a run that has connected.   *)
(***************************************************************************)
MaxBooleanLen == 3
BooleanChars == {"y", "e", "s", "Y", "E", "S", " "}

\* The cells of the column "Emergency Services".
BooleanInputs ==
    SeqsUpTo(BooleanChars, MaxBooleanLen)
        \cup {Absent, <<"N", "o">>, <<" ", "y", "e", "s">>, <<"Y", "e", "s", " ">>,
              <<" ", "Y", "E", "S", " ">>, <<"y", "e", "s", "s">>}

BooleanInit ==
    /\ db = EmptyDb
    /\ tx = EmptyDb
    /\ pc = "rows"
    /\ kind = "quality"
    /\ \E v \in BooleanInputs :
          argv = [argc |-> 3, date |-> Week1, exists |-> TRUE,
                  rows |-> <<QRow("1001", "General", Places.Springfield,
                                  v, <<"3">>, "none")>>,
                  fault |-> "none"]
    /\ data_hhs = <<>>
    /\ location_ids = <<>>
    /\ hospital_ids = <<>>
    /\ row_count = 0
    /\ row = <<>>
    /\ error = NoError
    /\ exitCode = Running
    /\ conn = "open"
    /\ rating_date = ParseDate(Week1)
    /\ db0 = EmptyDb
    /\ rerun = FALSE
    /\ sessions = <<>>
    /\ output = <<>>
    /\ used = 0

\* No row of these files raises: the handler of lines 75-77 is never entered.
BooleanNext ==
    \/ RatingRow
    \/ RatingCommit
    \/ QualityFinally

BooleanSpec == BooleanInit /\ [][BooleanNext]_vars

(***************************************************************************)
(* Blank cells: a quality file of one row, of a facility the database does *)
(* not know, in which each cell the loader stores is filled, empty, a      *)
(* blank, or the text Not Available.                                       *)
(***************************************************************************)
BlankCells == {"", " ", "Not Available"}
BlankRatings == {<<>>, <<" ">>, NotAvailable}

\* The rows of the file: csv.DictReader gives every cell as the string read.
BlankRows ==
    {[facility_id |-> "1001", hospital_name |-> name, city |-> city, state |-> state,
      zip_code |-> zip, ownership |-> ownership,
      emergency_services |-> <<"Y", "e", "s">>, hospital_type |-> type,
      rating |-> rating, fault |-> "none"] :
        name \in {"General"} \cup BlankCells,
        city \in {"Springfield"} \cup BlankCells,
        state \in {"IL"} \cup BlankCells,
        zip \in {"62701"} \cup BlankCells,
        ownership \in {"Government"} \cup BlankCells,
        type \in {"Acute Care Hospitals"} \cup BlankCells,
        rating \in {<<"3">>} \cup BlankRatings}

BlankInit ==
    /\ db = EmptyDb
    /\ tx = EmptyDb
    /\ pc = "rows"
    /\ kind = "quality"
    /\ \E r \in BlankRows :
          argv = [argc |-> 3, date |-> Week1, exists |-> TRUE, rows |-> <<r>>,
                  fault |-> "none"]
    /\ data_hhs = <<>>
    /\ location_ids = <<>>
    /\ hospital_ids = <<>>
    /\ row_count = 0
    /\ row = <<>>
    /\ error = NoError
    /\ exitCode = Running
    /\ conn = "open"
    /\ rating_date = ParseDate(Week1)
    /\ db0 = EmptyDb
    /\ rerun = FALSE
    /\ sessions = <<>>
    /\ output = <<>>
    /\ used = 0

BlankSpec == BlankInit /\ [][BooleanNext]_vars

----------------------------------------------------------------------------
(* One weekly load of a one-row extract into the empty database.            *)

\* Metric cells with all_adult_hospital_beds_7_day_avg 50 and the other
\* columns as in PlainMetrics, one of them empty, or all of them empty.
EndToEndMetrics ==
    {PlainMetrics,
     [c \in MetricCols |->
         IF c = "all_adult_hospital_beds_7_day_avg" THEN "50" ELSE NaN]}
        \cup {[PlainMetrics EXCEPT ![c] = NaN] :
                 c \in MetricCols \ {"all_adult_hospital_beds_7_day_avg"}}

\* The row of the extract: hospital 1001 of Springfield, IL 62701, week
\* 2022-03-01, with or without a geocoded point and a fips code.
EndToEndRows ==
    {WRow("1001", "General", Places.Springfield, point, fips, Week1, m) :
        point \in {Point, NoPoint}, fips \in {"17167", NaN}, m \in EndToEndMetrics}

EndToEndInit ==
    /\ db = EmptyDb
    /\ tx = EmptyDb
    /\ pc = "read_csv"
    /\ kind = "hhs"
    /\ \E r \in EndToEndRows :
          argv = [argc |-> 2, date |-> <<>>, exists |-> TRUE, rows |-> <<r>>,
                  fault |-> "none"]
    /\ data_hhs = <<>>
    /\ location_ids = <<>>
    /\ hospital_ids = <<>>
    /\ row_count = 0
    /\ row = <<>>
    /\ error = NoError
    /\ exitCode = Running
    /\ conn = "open"
    /\ rating_date = None
    /\ db0 = EmptyDb
    /\ rerun = FALSE
    /\ sessions = <<>>
    /\ output = <<>>
    /\ used = 1

EndToEndNext ==
    \/ HhsReadCsv
    \/ HhsNormalize
    \/ HhsInsertLocations
    \/ HhsSelectLocationIds
    \/ HhsInsertHospitals
    \/ HhsSelectHospitalIds
    \/ HhsInsertWeekly
    \/ HhsCommit

EndToEndSpec == EndToEndInit /\ [][EndToEndNext]_vars

(***************************************************************************)
(* The geocoded point read character by character: one weekly load, into   *)
(* the empty database, of an extract of one or two rows whose point cells  *)
(* are well-formed or malformed strings.  The token pairs of the sections  *)
(* above are what lines 35-36 leave of a well-formed cell.                 *)
(***************************************************************************)
PointPrefix == <<"P", "O", "I", "N", "T", " ", "(">>
Lon == <<"-", "8", ".", "5">>
Lat == <<"4", ".", "5">>

\* The cell POINT (<lon> <lat>)
PointString(lon, lat) == PointPrefix \o lon \o <<" ">> \o lat \o <<")">>

\* The point cells of the extract: the well-formed one, then cells without the
\* blank after POINT, with one number, with a word for a number, with two
\* blanks or a comma between the numbers, without the POINT wrapper, and
\* without the closing parenthesis.
PointStrings ==
    {PointString(Lon, Lat),
     <<"P", "O", "I", "N", "T", "(">> \o Lon \o <<" ">> \o Lat \o <<")">>,
     PointPrefix \o Lon \o <<")">>,
     PointPrefix \o Lon \o <<" ", "x", ")">>,
     PointPrefix \o Lon \o <<" ", " ">> \o Lat \o <<")">>,
     PointPrefix \o Lon \o <<",">> \o Lat \o <<")">>,
     Lon \o <<" ">> \o Lat,
     PointPrefix \o Lon \o <<" ">> \o Lat}

\* .str.slice(start, stop) for start >= 0 > stop: s[start:stop]
Slice(s, start, stop) == SubSeq(s, start + 1, Len(s) + stop)

\* s.split(sep): the pieces between the separators, empty pieces included
RECURSIVE Split(_, _)
Split(s, sep) ==
    IF \A i \in 1..Len(s) : s[i] # sep THEN <<s>>
    ELSE LET k == CHOOSE i \in 1..Len(s) :
                      s[i] = sep /\ \A j \in 1..(i - 1) : s[j] # sep
         IN <<SubSeq(s, 1, k - 1)>> \o Split(SubSeq(s, k + 1, Len(s)), sep)

\* The strings float() accepts, among those of signs, digits, dots and letters
IsFloat(t) ==
    LET body == IF t # <<>> /\ Head(t) \in {"-", "+"} THEN Tail(t) ELSE t
    IN /\ \A i \in 1..Len(body) : IsAsciiDigit(body[i]) \/ body[i] = "."
       /\ Cardinality({i \in 1..Len(body) : body[i] = "."}) <= 1
       /\ \E i \in 1..Len(body) : IsAsciiDigit(body[i])

RECURSIVE Join(_)
Join(s) == IF s = <<>> THEN "" ELSE Head(s) \o Join(Tail(s))

\* float(t) as its decimal numeral: no plus sign, a digit on both sides of
\* the dot.
FloatOf(t) ==
    LET unsigned == IF Head(t) \in {"-", "+"} THEN Tail(t) ELSE t
        sign == IF Head(t) = "-" THEN <<"-">> ELSE <<>>
        lead == IF Head(unsigned) = "." THEN <<"0">> \o unsigned ELSE unsigned
        full == IF \A i \in 1..Len(lead) : lead[i] # "." THEN lead \o <<".", "0">>
                ELSE IF lead[Len(lead)] = "." THEN lead \o <<"0">>
                ELSE lead
    IN Join(sign \o full)

\* Lines 35-36 on one cell: the pieces of cell[7:-1]; a missing cell has none.
PointTokens(cell) == IF cell = NoPoint THEN <<>> ELSE Split(Slice(cell, 7, -1), " ")

\* The number of columns of .str.split(' ', expand=True) over the frame
SplitWidth(rows) ==
    LET lens == {Len(PointTokens(rows[i].geocoded_hospital_address)) : i \in 1..Len(rows)}
    IN CHOOSE n \in lens : \A m \in lens : m <= n

\* Lines 36-38 on one cell of a frame split into two columns: a row with
\* fewer pieces has NaN in the columns it does not reach.
Coordinates(cell) ==
    LET t == PointTokens(cell)
    IN [k \in 1..2 |-> IF k <= Len(t) THEN FloatOf(t[k]) ELSE NaN]

\* lines 27-44 on point cells given as strings.  The assignment of line 36
\* raises ValueError unless the split gave two columns, astype(float) raises
\* ValueError on a piece that is no number.
PointNormalize ==
    /\ kind = "hhs" /\ pc = "normalize"
    /\ IF \A i \in 1..Len(data_hhs) : data_hhs[i].geocoded_hospital_address = NoPoint
       THEN Uncaught("AttributeError") /\ UNCHANGED data_hhs
       ELSE IF SplitWidth(data_hhs) # 2
       THEN Uncaught("ValueError") /\ UNCHANGED data_hhs
       ELSE IF \E i \in 1..Len(data_hhs) :
                  LET t == PointTokens(data_hhs[i].geocoded_hospital_address)
                  IN \E k \in 1..Len(t) : ~IsFloat(t[k])
       THEN Uncaught("ValueError") /\ UNCHANGED data_hhs
       ELSE LET split == [i \in 1..Len(data_hhs) |->
                            [data_hhs[i] EXCEPT !.geocoded_hospital_address =
                                Coordinates(data_hhs[i].geocoded_hospital_address)]]
            IN IF \E d \in DatesParsed(split) : ~ValidDate(d)
               THEN Uncaught("ValueError") /\ UNCHANGED data_hhs
               ELSE /\ data_hhs' = Normalize(split)
                    /\ pc' = "insert_location"
                    /\ UNCHANGED <<error, exitCode, tx, output>>
    /\ UNCHANGED <<db, kind, argv, location_ids, hospital_ids, row_count, row,
                   rating_date, conn, db0, rerun, sessions, used>>

\* The extracts: hospital 1001 of Springfield, alone or followed by hospital
\* 1002 of Peoria, each with any of the point cells or none.
PointRows ==
    LET first(p) == WRow("1001", "General", Places.Springfield, p, "17167",
                         Week1, PlainMetrics)
        second(p) == WRow("1002", "Memorial", Places.Peoria, p, "17143",
                          Week2, PlainMetrics)
        cells == PointStrings \cup {NoPoint}
    IN {<<first(p)>> : p \in cells}
          \cup {<<first(p), second(q)>> : p \in cells, q \in cells}

PointInit ==
    /\ db = EmptyDb
    /\ tx = EmptyDb
    /\ pc = "read_csv"
    /\ kind = "hhs"
    /\ \E rows \in PointRows :
          argv = [argc |-> 2, date |-> <<>>, exists |-> TRUE, rows |-> rows,
                  fault |-> "none"]
    /\ data_hhs = <<>>
    /\ location_ids = <<>>
    /\ hospital_ids = <<>>
    /\ row_count = 0
    /\ row = <<>>
    /\ error = NoError
    /\ exitCode = Running
    /\ conn = "open"
    /\ rating_date = None
    /\ db0 = EmptyDb
    /\ rerun = FALSE
    /\ sessions = <<>>
    /\ output = <<>>
    /\ used = 1

PointNext ==
    \/ HhsReadCsv
    \/ PointNormalize
    \/ HhsInsertLocations
    \/ HhsSelectLocationIds
    \/ HhsInsertHospitals
    \/ HhsSelectHospitalIds
    \/ HhsInsertWeekly
    \/ HhsCommit

PointSpec == PointInit /\ [][PointNext]_vars

(***************************************************************************)
(* What the operator reads: one run of either loader that has its          *)
(* arguments, the quality loader on files long enough for the progress     *)
(* message, with or without a last row that raises, the weekly loader on   *)
(* an extract of one row.                                                  *)
(***************************************************************************)
MaxFileRows == 201

\* The numbers of rows of the quality files: around the progress steps.
FileLengths ==
    {0, 1, ProgressEvery - 1, ProgressEvery, ProgressEvery + 1, 2 * ProgressEvery,
     MaxFileRows}

\* A quality file of n rows of one facility, all good, or with a last row
\* whose rating makes int() raise.
MessageFiles ==
    LET good == QRow("1001", "General", Places.Springfield, <<"Y", "e", "s">>,
                     <<"3">>, "none")
        bad == QRow("1001", "General", Places.Springfield, <<"Y", "e", "s">>,
                    <<SuperscriptTwo>>, "none")
    IN {[i \in 1..n |-> good] : n \in FileLengths}
          \cup {[i \in 1..n |-> IF i = n THEN bad ELSE good] : n \in FileLengths \ {0}}

MessageInit ==
    /\ db = EmptyDb
    /\ tx = EmptyDb
    /\ \/ /\ kind = "quality"
          /\ pc = "open_csv"
          /\ rating_date = ParseDate(Week1)
          /\ \E exists \in BOOLEAN, rows \in MessageFiles :
                /\ ~exists => rows = <<>>
                /\ argv = [argc |-> 3, date |-> Week1, exists |-> exists,
                           rows |-> rows, fault |-> "none"]
       \/ /\ kind = "hhs"
          /\ pc = "read_csv"
          /\ rating_date = None
          /\ \E exists \in BOOLEAN, r \in WeeklyRows,
                fault \in {"none", "hospital", "weekly_report"} :
                /\ fault # "none" => exists
                /\ argv = [argc |-> 2, date |-> <<>>, exists |-> exists,
                           rows |-> <<r>>, fault |-> fault]
    /\ data_hhs = <<>>
    /\ location_ids = <<>>
    /\ hospital_ids = <<>>
    /\ row_count = 0
    /\ row = <<>>
    /\ error = NoError
    /\ exitCode = Running
    /\ conn = "open"
    /\ db0 = EmptyDb
    /\ rerun = FALSE
    /\ sessions = <<>>
    /\ output = <<>>
    /\ used = 0

MessageNext ==
    \/ QualityOpenCsv
    \/ RatingRow
    \/ RatingCommit
    \/ QualityExcept
    \/ QualityFinally
    \/ HhsReadCsv
    \/ HhsNormalize
    \/ HhsInsertLocations
    \/ HhsSelectLocationIds
    \/ HhsInsertHospitals
    \/ HhsSelectHospitalIds
    \/ HhsInsertWeekly
    \/ HhsCommit

MessageSpec == MessageInit /\ [][MessageNext]_vars

----------------------------------------------------------------------------
(* Two quality loaders started side by side on one database, each on a file *)
(* of one row.  Every statement of process_and_insert_row is a step; a      *)
(* statement sees the committed rows and the rows of its own transaction    *)
(* (READ COMMITTED), and an insert of a key another open transaction has    *)
(* inserted waits for that transaction to end.                              *)

Tables == {"location", "hospital", "weekly_report", "hospital_quality"}

\* The rows of QualityRows the loop processes without an exception.
GoodQualityRows == {r \in QualityRows : r.fault = "none" /\ ~RatingRaises(r.rating)}

\* The other of the two sessions.
Other(s) == 3 - s

\* The tables as a statement of session s sees them.
Visible(s) == [t \in Tables |-> db[t] \cup sessions[s].w[t]]

\* All rows of a table, committed or not: generated ids are never reused.
AllRows(t) == db[t] \cup sessions[1].w[t] \cup sessions[2].w[t]

\* The location tuple of the backfill: city, state and zip code only.
BackfillTuple(r) ==
    [city |-> r.city, state |-> r.state, zip_code |-> r.zip_code,
     latitude |-> None, longitude |-> None, fips_code |-> None]

ConcurrentInit ==
    /\ db = EmptyDb
    /\ tx = EmptyDb
    /\ pc = "idle"
    /\ kind = "quality"
    /\ argv = NoArgs
    /\ data_hhs = <<>>
    /\ location_ids = <<>>
    /\ hospital_ids = <<>>
    /\ row_count = 0
    /\ row = <<>>
    /\ error = NoError
    /\ exitCode = Running
    /\ conn = "open"
    /\ rating_date = None
    /\ db0 = EmptyDb
    /\ rerun = FALSE
    /\ used = 0
    /\ output = <<>>
    /\ \E r1, r2 \in GoodQualityRows, d1, d2 \in {Week1, Week2} :
          sessions = [s \in 1..2 |->
                        [pc |-> "check",
                         row |-> IF s = 1 THEN r1 ELSE r2,
                         rating_date |-> ParseDate(IF s = 1 THEN d1 ELSE d2),
                         found |-> "unknown",
                         location_id |-> NoLocation,
                         w |-> EmptyDb]]

\* lines 105-106: SELECT 1 FROM hospital WHERE hospital_pk = %s
SessionCheck(s) ==
    /\ sessions # <<>> /\ sessions[s].pc = "check"
    /\ LET found == sessions[s].row.facility_id \in Pks(Visible(s).hospital)
       IN sessions' = [sessions EXCEPT
             ![s].found = IF found THEN "present" ELSE "absent",
             ![s].pc = IF found THEN "insert_quality" ELSE "insert_location"]
    /\ UNCHANGED <<db, tx, pc, kind, argv, data_hhs, location_ids, hospital_ids,
                   row_count, row, rating_date, error, exitCode, conn, db0, rerun, output, used>>

\* Mutant: the location insert meets a unique index over (city, state,
\* zip_code) alone: it waits for the other transaction's row of the same place
\* and does nothing when a row of the place is visible.
SessionInsertLocationByPlace(s) ==
    /\ sessions # <<>> /\ sessions[s].pc = "insert_location"
    /\ LET t == BackfillTuple(sessions[s].row)
           same(l) == l.city = t.city /\ l.state = t.state /\ l.zip_code = t.zip_code
       IN /\ ~\E l \in sessions[Other(s)].w.location : same(l)
          /\ IF \E l \in Visible(s).location : same(l)
             THEN sessions' = [sessions EXCEPT ![s].location_id = NoLocation,
                                               ![s].pc = "insert_hospital"]
             ELSE sessions' = [sessions EXCEPT
                     ![s].w.location = @ \cup {[id |-> NextLocationId(AllRows("location"))]
                                                  @@ t},
                     ![s].location_id = NextLocationId(AllRows("location")),
                     ![s].pc = "insert_hospital"]
    /\ UNCHANGED <<db, tx, pc, kind, argv, data_hhs, location_ids, hospital_ids,
                   row_count, row, rating_date, error, exitCode, conn, db0, rerun, output, used>>

\* lines 108-114: INSERT INTO location (city, state, zip_code) ... ON CONFLICT
\* DO NOTHING RETURNING id; location_id is the id returned, None without one
SessionInsertLocation(s) ==
    /\ sessions # <<>> /\ sessions[s].pc = "insert_location"
    /\ LET t == BackfillTuple(sessions[s].row)
           new == InsertLocation(AllRows("location"), t) \ AllRows("location")
       IN /\ ~\E l \in sessions[Other(s)].w.location : LocationConflict(l, t)
          /\ IF \E l \in Visible(s).location : LocationConflict(l, t)
             THEN sessions' = [sessions EXCEPT ![s].location_id = NoLocation,
                                               ![s].pc = "insert_hospital"]
             ELSE sessions' = [sessions EXCEPT
                     ![s].w.location = @ \cup new,
                     ![s].location_id = NextLocationId(AllRows("location")),
                     ![s].pc = "insert_hospital"]
    /\ UNCHANGED <<db, tx, pc, kind, argv, data_hhs, location_ids, hospital_ids,
                   row_count, row, rating_date, error, exitCode, conn, db0, rerun, output, used>>

\* lines 117-121: INSERT INTO hospital ... ON CONFLICT DO NOTHING
SessionInsertHospital(s) ==
    /\ sessions # <<>> /\ sessions[s].pc = "insert_hospital"
    /\ sessions[s].row.facility_id \notin Pks(sessions[Other(s)].w.hospital)
    /\ LET h == [hospital_pk |-> sessions[s].row.facility_id,
                 hospital_name |-> sessions[s].row.hospital_name,
                 location_id |-> sessions[s].location_id]
       IN sessions' = [sessions EXCEPT
             ![s].w.hospital = InsertHospital(Visible(s).hospital, h) \ db.hospital,
             ![s].pc = "insert_quality"]
    /\ UNCHANGED <<db, tx, pc, kind, argv, data_hhs, location_ids, hospital_ids,
                   row_count, row, rating_date, error, exitCode, conn, db0, rerun, output, used>>

\* lines 125-130: INSERT INTO hospital_quality
SessionInsertQuality(s) ==
    /\ sessions # <<>> /\ sessions[s].pc = "insert_quality"
    /\ sessions[s].row.facility_id \in Pks(Visible(s).hospital)
    /\ sessions' = [sessions EXCEPT
          ![s].w.hospital_quality =
              @ \cup {[id |-> Cardinality(AllRows("hospital_quality")) + 1,
                       f |-> QualityFact(sessions[s].row, sessions[s].rating_date)]},
          ![s].pc = "commit"]
    /\ UNCHANGED <<db, tx, pc, kind, argv, data_hhs, location_ids, hospital_ids,
                   row_count, row, rating_date, error, exitCode, conn, db0, rerun, output, used>>

\* lines 68-70 and 78-80: conn.commit() after the one row, conn.close()
SessionCommit(s) ==
    /\ sessions # <<>> /\ sessions[s].pc = "commit"
    /\ db' = [t \in Tables |-> db[t] \cup sessions[s].w[t]]
    /\ sessions' = [sessions EXCEPT ![s].w = EmptyDb, ![s].pc = "done"]
    /\ UNCHANGED <<tx, pc, kind, argv, data_hhs, location_ids, hospital_ids,
                   row_count, row, rating_date, error, exitCode, conn, db0, rerun, output, used>>

ConcurrentNext ==
    \/ \E s \in 1..2 : SessionCheck(s)
    \/ \E s \in 1..2 : SessionInsertLocation(s)
    \/ \E s \in 1..2 : SessionInsertHospital(s)
    \/ \E s \in 1..2 : SessionInsertQuality(s)
    \/ \E s \in 1..2 : SessionCommit(s)

ConcurrentSpec == ConcurrentInit /\ [][ConcurrentNext]_vars

----------------------------------------------------------------------------
(* Properties *)

\* The identifier the resolver pairs with the i-th row of the frame.
ResolvedId(i) == IF i <= Len(location_ids) THEN location_ids[i] ELSE NoLocation

\* The (city, state, zip, latitude, longitude, fips) of a location row.
TupleOf(l) == [city |-> l.city, state |-> l.state, zip_code |-> l.zip_code,
               latitude |-> l.latitude, longitude |-> l.longitude,
               fips_code |-> l.fips_code]

\* C1: once the location re-query of a weekly load has run, two rows of the
\* batch with the same (city, state, zip, latitude, longitude, fips), nulls
\* equal to nulls, are paired with the same location identifier, and the
\* location table holds at most one row for that tuple.
C1_SameTupleSameLocationId ==
    (kind = "hhs" /\ pc = "insert_hospital") =>
        \A i, j \in 1..Len(data_hhs) :
            LocationData(data_hhs[i]) = LocationData(data_hhs[j]) =>
                /\ ResolvedId(i) # NoLocation
                /\ ResolvedId(i) = ResolvedId(j)
                /\ Cardinality({l \in tx.location :
                                   TupleOf(l) = LocationData(data_hhs[i])}) <= 1

\* C2: when a weekly load that repeats the command of the successful load just
\* before it has ended, the hospital table and the location table have as
\* many rows as when it started.
C2_DimensionCountsIdempotent ==
    (kind = "hhs" /\ pc = "done" /\ rerun /\ exitCode = 0) =>
        /\ Cardinality(db.hospital) = Cardinality(db0.hospital)
        /\ Cardinality(db.location) = Cardinality(db0.location)

QualityOf(t, id) == {q \in t.hospital_quality : q.f.facility_id = id}
HospitalOf(t, id) == {h \in t.hospital : h.hospital_pk = id}

\* C3: a quality row processed without error whose facility has no hospital
\* row leaves exactly one hospital row and one hospital_quality row for the
\* facility and one more location row; a row whose facility has a hospital row
\* (a second identical row of the file) adds one hospital_quality row and
\* leaves hospital and location as they are.
C3_BackfillOnce ==
    [][(kind = "quality" /\ pc = "rows" /\ row_count' = row_count + 1) =>
         IF row'.facility_id \notin Pks(tx.hospital)
         THEN /\ Cardinality(HospitalOf(tx', row'.facility_id)) = 1
              /\ Cardinality(QualityOf(tx', row'.facility_id)) = 1
              /\ Cardinality(tx'.location) = Cardinality(tx.location) + 1
              /\ Cardinality(tx'.hospital) = Cardinality(tx.hospital) + 1
         ELSE /\ Cardinality(QualityOf(tx', row'.facility_id))
                    = Cardinality(QualityOf(tx, row'.facility_id)) + 1
              /\ tx'.hospital = tx.hospital
              /\ tx'.location = tx.location]_vars

\* C3 witness: the second of two identical rows of a file has been processed
\* for a facility the file brought in.
C3_Witness ==
    /\ kind = "quality" /\ pc = "rows" /\ row_count = 2
    /\ row.facility_id \notin Pks(db0.hospital)
    /\ Cardinality(QualityOf(tx, row.facility_id)) = 2
    /\ Cardinality(tx.location) = Cardinality(db0.location) + 1

\* C4: in the committed tables and in the open transaction every
\* weekly_report and hospital_quality row references a hospital row, and no
\* fact insert was ever refused for a missing hospital (an insert is refused
\* only in a weekly run the database fails by fault).
C4_FactsReferenceHospitals ==
    /\ \A t \in {db, tx} :
          /\ \A w \in t.weekly_report : w.f.hospital_weekly_id \in Pks(t.hospital)
          /\ \A q \in t.hospital_quality : q.f.facility_id \in Pks(t.hospital)
    /\ error = "ForeignKeyViolation" => (kind = "hhs" /\ argv.fault # "none")

\* C4 witness: facts of both kinds are committed, the quality fact for a
\* hospital its own run inserted.
C4_Witness ==
    /\ db.weekly_report # {} /\ db.hospital_quality # {}
    /\ kind = "quality" /\ pc = "done"
    /\ \E q \in db.hospital_quality : q.f.facility_id \notin Pks(db0.hospital)

\* C5: no step removes a hospital row or changes its name or location
\* reference, neither among the committed rows nor, while a hospital stays
\* visible, in the open transaction.
C5_HospitalRowsNeverUpdated ==
    [][/\ db.hospital \subseteq db'.hospital
       /\ \A h \in tx.hospital :
             h.hospital_pk \in Pks(tx'.hospital) => h \in tx'.hospital]_vars

\* C5 witness: a weekly load has run its hospital insert with a row that
\* names a committed hospital under another name.
C5_Witness ==
    /\ kind = "hhs" /\ pc = "select_hospital"
    /\ \E i \in 1..Len(data_hhs) : \E h \in db.hospital :
          /\ h.hospital_pk = data_hhs[i].hospital_pk
          /\ h.hospital_name # data_hhs[i].hospital_name
          /\ i <= Len(location_ids)

\* A row of the quality file raised.
RowError == kind = "quality" /\ error \in {"ValueError", "DatabaseError", "ForeignKeyViolation"}

\* C6: once a row of a quality file has raised, the loop is not entered
\* again, and from the handler on nothing of the run is left: the committed
\* tables are those from before the run.
C6_QualityFailureKeepsNothing ==
    RowError =>
        /\ pc \in {"except", "finally", "done"}
        /\ db = db0
        /\ pc \in {"finally", "done"} => tx = db0

\* C6 witness: a run has ended on a failing row after it had processed rows
\* and backfilled a hospital.
C6_Witness ==
    /\ RowError /\ pc = "done" /\ row_count >= 1
    /\ error = "DatabaseError"

\* C7 as stated: the hospitals and locations a quality run has inserted are
\* committed at once, so when a row fails they are already persisted.
C7_BackfillCommittedEarly ==
    (kind = "quality" /\ pc = "except") =>
        /\ tx.hospital \subseteq db.hospital
        /\ tx.location \subseteq db.location

\* C7 amended: the quality loader commits only when the file is exhausted,
\* and a run ended by a failing row leaves hospital and location as they were
\* before it.
C7_CommitOnlyAtEnd ==
    [][/\ (kind = "quality" /\ db' # db) =>
             (pc = "rows" /\ pc' = "finally" /\ db' = tx /\ error = NoError)
       /\ (RowError' /\ pc' = "done") =>
             (db'.hospital = db0'.hospital /\ db'.location = db0'.location)]_vars

\* C7 witness: a row failed in its rating parse after an earlier row of the
\* same file had inserted a hospital/location pair.
C7_Witness ==
    /\ kind = "quality" /\ pc = "except" /\ error = "ValueError" /\ row_count >= 1
    /\ tx.hospital # db.hospital /\ tx.location # db.location

\* The run was given a date string that is not a YYYY-MM-DD date.
MalformedDateGiven ==
    \/ kind = "quality" /\ argv.argc = 3 /\ ~ValidDate(argv.date)
    \/ /\ kind = "hhs" /\ argv.argc = 2 /\ argv.exists
       /\ \E i \in 1..Len(argv.rows) : ~ValidDate(argv.rows[i].collection_week)

\* C8: a run given a malformed date ends with exit code 1 and commits nothing.
C8_MalformedDateFailsRun ==
    (pc = "done" /\ MalformedDateGiven) => (exitCode = 1 /\ db = db0)

\* C9: a run ended by an error exits non-zero, with 1 for an argument, format
\* or file error.
C9_ErrorExitsNonZero ==
    (pc = "done" /\ error # NoError) =>
        /\ exitCode # 0
        /\ ~RowError => exitCode = 1

\* The first row of the CSV with the key of a row of the frame: the row
\* drop_duplicates kept.
RawRow(r) ==
    argv.rows[CHOOSE i \in 1..Len(argv.rows) :
                 /\ argv.rows[i].hospital_pk = r.hospital_pk
                 /\ \A j \in 1..(i - 1) : argv.rows[j].hospital_pk # r.hospital_pk]

\* C10: every fact a weekly load inserts is, column by column, a CSV row of
\* the load with -999999 and empty cells turned to null and every other value
\* unchanged.
C10_SentinelStoredAsNull ==
    (kind = "hhs" /\ pc = "commit") =>
        \A w \in tx.weekly_report \ db.weekly_report :
            \E i \in 1..Len(data_hhs) :
                /\ w.f.collection_week = data_hhs[i].collection_week
                /\ \A c \in MetricCols :
                      w.f[c] = IF RawRow(data_hhs[i]).m[c] \in {Sentinel, NaN}
                               THEN None
                               ELSE RawRow(data_hhs[i]).m[c]

\* A string of ASCII decimal digits.
DigitOnly(v) ==
    /\ v # <<>>
    /\ \A i \in 1..Len(v) : v[i] \in {"0", "1", "2", "3", "4", "5", "6", "7", "8", "9"}

\* The rating a cell stands for: n for a digit-only string of value n in 1..5,
\* null for every other cell.
RatingOf(v) ==
    IF DigitOnly(v) /\ IntOf(v) \in 1..5 THEN AsciiDigits[IntOf(v) + 1] ELSE None

\* C11: a quality row is never rejected for its rating cell: once the loop has
\* taken the row, no error is pending and the hospital_quality row written
\* for it carries n when the cell is a digit-only string of value n in 1..5
\* and null for every other cell.
C11_RatingNormalized ==
    (kind = "quality" /\ row # <<>>) =>
        /\ error = NoError
        /\ \A t \in {db, tx} : \A q \in t.hospital_quality :
              q.f.quality_rating = RatingOf(row.rating)

\* C12: when the load of the one-row extract (hospital 1001, Springfield IL
\* 62701, week 2022-03-01, all-adult beds 50) into the empty database has
\* ended, the committed tables hold exactly one hospital row, with key 1001,
\* exactly one location row, for Springfield, and exactly one weekly_report
\* row, for hospital 1001 and week 2022-03-01 with all-adult beds 50.
C12_SingleRowEndToEnd ==
    (kind = "hhs" /\ pc = "done") =>
        /\ Cardinality(db.hospital) = 1
        /\ \A h \in db.hospital : h.hospital_pk = "1001"
        /\ Cardinality(db.location) = 1
        /\ \A l \in db.location :
              l.city = "Springfield" /\ l.state = "IL" /\ l.zip_code = "62701"
        /\ Cardinality(db.weekly_report) = 1
        /\ \A w \in db.weekly_report :
              /\ w.f.hospital_weekly_id = "1001"
              /\ w.f.collection_week = ParseDate(Week1)
              /\ w.f.all_adult_hospital_beds_7_day_avg = "50"

\* C13: no step removes or changes a committed hospital_quality row, and a
\* quality row processed without error keeps every hospital_quality row the
\* transaction saw before it and adds exactly one, for the row's facility and
\* the rating date of the run, whether or not the facility had ratings, of
\* that date or another.
C13_RatingsAppendOnly ==
    [][/\ db.hospital_quality \subseteq db'.hospital_quality
       /\ (kind = "quality" /\ pc = "rows" /\ row_count' = row_count + 1) =>
             /\ tx.hospital_quality \subseteq tx'.hospital_quality
             /\ Cardinality(tx'.hospital_quality \ tx.hospital_quality) = 1
             /\ \A q \in tx'.hospital_quality \ tx.hospital_quality :
                   /\ q.f.facility_id = row'.facility_id
                   /\ q.f.rating_date = rating_date]_vars

\* C13 witness: a quality run has committed a rating for a facility that had
\* a committed rating of the same date and one of another date.
C13_Witness ==
    /\ kind = "quality" /\ pc = "done" /\ error = NoError
    /\ \E new \in db.hospital_quality \ db0.hospital_quality :
          /\ \E q \in db0.hospital_quality :
                /\ q.f.facility_id = new.f.facility_id
                /\ q.f.rating_date = new.f.rating_date
          /\ \E q \in db0.hospital_quality :
                /\ q.f.facility_id = new.f.facility_id
                /\ q.f.rating_date # new.f.rating_date

\* C14: a run that has opened a database connection has closed it when the
\* process has ended, whatever ended it.
C14_ConnectionReleased ==
    pc = "done" => conn \in {"none", "closed"}

\* C15: a weekly run changes the committed tables in one step only, its last,
\* and what it has committed when it ends is nothing, or everything it
\* inserted: every location row its location insert added and, when its
\* hospital insert was not refused, every hospital row that insert added.
C15_WeeklyLoadAtomic ==
    [][kind' = "hhs" =>
          /\ db' # db => (pc = "commit" /\ pc' = "done" /\ db' = tx)
          /\ (pc' = "done" /\ db' # db0') =>
                /\ InsertLocations(db0'.location, data_hhs') \subseteq db'.location
                /\ error' = NoError =>
                      InsertHospitals(db0'.hospital,
                                      HospitalData(data_hhs', location_ids'))
                          \subseteq db'.hospital]_vars

\* What two tables hold, the generated ids of the ratings left out.
Content(t) ==
    [location |-> t.location, hospital |-> t.hospital,
     ratings |-> {q.f : q \in t.hospital_quality},
     count |-> Cardinality(t.hospital_quality)]

\* The tables after the run of session a, then the run of session b.
Serial(a, b) ==
    process_and_insert_row(
        process_and_insert_row(EmptyDb, sessions[a].row, sessions[a].rating_date).tx,
        sessions[b].row, sessions[b].rating_date).tx

\* Both runs have ended.
BothDone == sessions # <<>> /\ \A s \in 1..2 : sessions[s].pc = "done"

\* Both runs handled the same facility and each found it absent.
Raced ==
    /\ sessions # <<>>
    /\ sessions[1].row.facility_id = sessions[2].row.facility_id
    /\ \A s \in 1..2 : sessions[s].found = "absent"

\* C16: when two quality runs side by side have ended, the committed tables
\* differ from what either order of the two runs one after the other leaves
\* exactly when both handled the same facility and both found it absent; they
\* then hold two location rows for the one hospital row of the facility.
C16_CheckThenInsertRaces ==
    BothDone =>
        /\ Content(db) \notin {Content(Serial(1, 2)), Content(Serial(2, 1))} <=> Raced
        /\ Raced => /\ Cardinality(db.location) = 2
                    /\ Cardinality(db.hospital) = 1
                    /\ Cardinality(db.hospital_quality) = 2

\* C16 witness: both runs found the facility absent and both have ended, and
\* the two location rows are rows of the same place.
C16_Witness ==
    /\ BothDone /\ Raced
    /\ sessions[1].row = sessions[2].row
    /\ Cardinality({BackfillTuple(sessions[1].row)} \cup {TupleOf(l) : l \in db.location}) = 1
    /\ Cardinality(db.location) = 2
    /\ Content(db) \notin {Content(Serial(1, 2)), Content(Serial(2, 1))}

\* C17: once the hospital insert of a weekly run was refused with
\* ForeignKeyViolation, the run inserts nothing more and commits nothing: up
\* to its end the transaction and the committed tables are those from before
\* the run.
C17_ForeignKeyViolationAbortsRun ==
    (kind = "hhs" /\ error = "ForeignKeyViolation" /\ argv.fault # "weekly_report") =>
        /\ tx = db0
        /\ db = db0

\* C18: after the hospital insert of a weekly run the resolver has returned
\* one identifier per row of the batch, and every hospital row the run has
\* inserted references no location or the location whose (city, state, zip,
\* latitude, longitude, fips) is the tuple of the hospital's own row of the
\* batch.
C18_HospitalReferencesOwnLocation ==
    (kind = "hhs" /\ pc = "select_hospital" /\ error = NoError) =>
        /\ Len(location_ids) = Len(data_hhs)
        /\ \A h \in tx.hospital \ db0.hospital :
              \E i \in 1..Len(data_hhs) :
                 /\ data_hhs[i].hospital_pk = h.hospital_pk
                 /\ \/ h.location_id = NoLocation
                    \/ \E l \in tx.location :
                          /\ l.id = h.location_id
                          /\ TupleOf(l) = LocationData(data_hhs[i])

\* C19: every weekly_report row a weekly run has inserted is the fact of one
\* row of the batch under the hospital_pk of that same row.
C19_FactUnderOwnHospital ==
    (kind = "hhs" /\ pc = "commit" /\ error = NoError) =>
        \A w \in tx.weekly_report \ db0.weekly_report :
            \E i \in 1..Len(data_hhs) :
                w.f = WeeklyFact(data_hhs[i], data_hhs[i].hospital_pk)

\* The hospital re-query returns a hospital for the i-th row of the batch.
HospitalResolved(i) == MatchingHospitals(tx.hospital, <<data_hhs[i]>>) # {}

\* The weekly_report rows made of the i-th tuple of weekly_data, which carries
\* the week and the metrics of the i-th row of the batch.
FactsOfRow(i) ==
    {w \in tx.weekly_report : w.id = Cardinality(db0.weekly_report) + i}

\* C20: after the weekly_report insert of a weekly run, a row of the batch
\* whose hospital the re-query returned has made exactly one weekly_report
\* row, a row whose hospital it did not return has made none, and every
\* weekly_report row references a hospital row.
C20_UnresolvedRowsExcluded ==
    (kind = "hhs" /\ pc = "commit" /\ error = NoError) =>
        /\ \A i \in 1..Len(data_hhs) :
              Cardinality(FactsOfRow(i)) = IF HospitalResolved(i) THEN 1 ELSE 0
        /\ \A w \in tx.weekly_report : w.f.hospital_weekly_id \in Pks(tx.hospital)

\* C21: a weekly load into the empty database of a CSV whose rows are all of
\* one hospital, every row the frame keeps being resolved, has inserted
\* exactly one weekly_report row for each (hospital, collection week) of the
\* CSV.
C21_OneFactPerHospitalWeek ==
    (/\ kind = "hhs" /\ pc = "commit" /\ error = NoError /\ db0 = EmptyDb
     /\ Len(hospital_ids) = Len(data_hhs)
     /\ \A i \in 1..Len(argv.rows) : argv.rows[i].hospital_pk = argv.rows[1].hospital_pk) =>
        \A i \in 1..Len(argv.rows) :
            ValidDate(argv.rows[i].collection_week) =>
                Cardinality({w \in tx.weekly_report :
                                /\ w.f.hospital_weekly_id = argv.rows[i].hospital_pk
                                /\ w.f.collection_week =
                                      ParseDate(argv.rows[i].collection_week)}) = 1

\* C22: the tuples one weekly load has sent to the location insert are
\* pairwise different: no (city, state, zip, latitude, longitude, fips) tuple
\* is submitted twice by one run.
C22_LocationTupleSubmittedOnce ==
    (kind = "hhs" /\ pc = "select_location") =>
        \A i, j \in 1..Len(data_hhs) :
            LocationData(data_hhs[i]) = LocationData(data_hhs[j]) => i = j

\* C23: once a weekly load has got past the point conversion, every row whose
\* cell is the well-formed POINT (<lon> <lat>) has a location row with <lon>
\* as longitude and <lat> as latitude, and no row of the extract has a
\* malformed cell.
C23_PointParsed ==
    (kind = "hhs" /\ pc = "select_location") =>
        \A i \in 1..Len(argv.rows) :
            LET r == argv.rows[i]
            IN /\ r.geocoded_hospital_address = PointString(Lon, Lat) =>
                     \E l \in tx.location :
                         /\ l.city = r.city /\ l.state = r.state /\ l.zip_code = r.zip
                         /\ l.longitude = FloatOf(Lon)
                         /\ l.latitude = FloatOf(Lat)
               /\ r.geocoded_hospital_address \in {PointString(Lon, Lat), NoPoint}

C25_OneFactPerProcessedRow ==
    [][/\ (kind = "quality" /\ pc = "rows" /\ row_count' = row_count + 1) =>
             /\ tx.hospital_quality \subseteq tx'.hospital_quality
             /\ Cardinality(tx'.hospital_quality \ tx.hospital_quality) = 1
             /\ \A q \in tx'.hospital_quality \ tx.hospital_quality :
                   /\ q.f.facility_id = row'.facility_id
                   /\ q.f.rating_date = rating_date
       /\ (kind' = "quality" /\ pc' \in {"finally", "done"} /\ error' = NoError) =>
             Cardinality(db'.hospital_quality)
                = Cardinality(db0'.hospital_quality) + row_count']_vars

\* C25 witness: a run of two rows has ended without error, one row of a
\* facility that had a hospital row before the run and one of a facility that
\* had none, and both facts are committed.
C25_Witness ==
    /\ kind = "quality" /\ pc = "done" /\ error = NoError /\ row_count = 2
    /\ \E q1, q2 \in db.hospital_quality \ db0.hospital_quality :
          /\ q1.f.facility_id \in Pks(db0.hospital)
          /\ q2.f.facility_id \notin Pks(db0.hospital)

WeekFacts(t, h, w) ==
    {x \in t.weekly_report : x.f.hospital_weekly_id = h /\ x.f.collection_week = w}

\* C26: when a weekly extract loaded without error into the empty database
\* has been loaded once more, no weekly_report row of the first load is
\* missing or changed, the table has twice as many rows, and every (hospital,
\* collection week) the first load stored has twice as many rows as before.
C26_RerunDoublesFacts ==
    (/\ kind = "hhs" /\ pc = "commit" /\ rerun /\ error = NoError
     /\ used = 2 * Len(argv.rows)) =>
        /\ db0.weekly_report \subseteq tx.weekly_report
        /\ Cardinality(tx.weekly_report) = 2 * Cardinality(db0.weekly_report)
        /\ \A x \in db0.weekly_report :
              Cardinality(WeekFacts(tx, x.f.hospital_weekly_id, x.f.collection_week))
                 = 2 * Cardinality(WeekFacts(db0, x.f.hospital_weekly_id,
                                             x.f.collection_week))

\* C27: the emergency-services flag stored for a processed row is true
\* exactly when the cell, lower-cased, is "yes", and false for every other
\* cell, the absent and the empty one included.
C27_BooleanNormalized ==
    (kind = "quality" /\ pc = "rows" /\ row_count = 1 /\ Len(argv.rows) = 1) =>
        \A q \in tx.hospital_quality :
            q.f.provides_emergency_services
                = (Lower(argv.rows[1].emergency_services) = <<"y", "e", "s">>)

\* C28: after the row of a one-row quality file was processed, every cell of
\* it that is empty, a blank or Not Available is NULL in the row it was
\* stored in: rating, ownership and hospital type in hospital_quality, the
\* name in hospital, city, state and zip code in location.
C28_BlankStoredAsNull ==
    (kind = "quality" /\ pc = "rows" /\ row_count = 1 /\ Len(argv.rows) = 1) =>
        LET r == argv.rows[1]
        IN /\ \A q \in tx.hospital_quality :
                 /\ r.rating \in BlankRatings => q.f.quality_rating = None
                 /\ r.ownership \in BlankCells => q.f.ownership = None
                 /\ r.hospital_type \in BlankCells => q.f.hospital_type = None
           /\ \A h \in tx.hospital :
                 r.hospital_name \in BlankCells => h.hospital_name = None
           /\ \A l \in tx.location :
                 /\ r.city \in BlankCells => l.city = None
                 /\ r.state \in BlankCells => l.state = None
                 /\ r.zip_code \in BlankCells => l.zip_code = None

IsProgress(m) == m = Progress(m[Len(m)])

\* A message that states how the run went: the success line, one of the
\* error lines of the scripts, or the interpreter's traceback.
IsFinalMessage(m) ==
    \/ m = Success(m[Len(m)])
    \/ m = FileNotFound
    \/ m = ErrorOccurred(m[Len(m)])
    \/ m = ForeignKeyMessage
    \/ m = Traceback(m[Len(m)])

\* C29: the progress messages a quality run has printed are those of the
\* positive multiples of 100 its count of processed rows has reached, in
\* order; and a run of either loader that had its arguments and has ended has
\* printed a message stating success or failure.
C29_OperatorMessages ==
    /\ kind = "quality" =>
          SelectSeq(output, IsProgress)
             = [k \in 1..(row_count \div ProgressEvery) |-> Progress(k * ProgressEvery)]
    /\ pc = "done" => \E i \in 1..Len(output) : IsFinalMessage(output[i])

====
